---- MODULE Spec2Model ----
(***************************************************************************)
(* Song Search Arena: the store (policies, final_lists, pairs, tasks,      *)
(* task_assignments, judgments), the rater's session, and the request      *)
(* handlers get_task / submit_judgment / set_policy / materialize, each    *)
(* split at its store calls so that concurrent requests interleave.        *)
(***************************************************************************)
EXTENDS Integers, FiniteSets, Sequences, TLC

\* ---------------------------------------------------------------- bounds
NumRaters      == 2
NumPolicies    == 2
MaxTarget      == 2
\* Requests that may be started in a behaviour of Spec, SpecRace, SpecSerial,
\* SpecAdmin.
MaxCalls       == 6
MaxRaceCalls   == 3
MaxSerialCalls == 5
\* Requests that may be started in a behaviour of SpecCoverage: every task of
\* the corpus offered and submitted, and one more request.
MaxCoverageCalls == 13
MaxAdminCalls  == 3
MaxAdminOps    == 3
\* Store calls of submit_judgment that may fail in a behaviour.
MaxStoreErrors == 1
\* Candidate rows of one (system, query); the largest final_k of a policy;
\* runs of materialize_final_list in a behaviour of SpecRerun.
MaxCandidates  == 3
MaxFinalK      == 3
MaxRuns        == 2
\* Runs of materialize_all_final_lists in a behaviour of SpecBatch.
MaxBatchRuns   == 1
\* Judgments of one (query, pair) group; (query, pair) results of one analysis;
\* results of an analysis of one-sided tallies; queries with genres; runs of
\* build_task_data in a behaviour of SpecPresent.
MaxJudgments   == 3
MaxResults     == 2
MaxTally       == 10
MaxGenreQueries == 2
MaxShown       == 3

\* ------------------------------------------------------ program constants
MIN_CONFIDENCE == 1
MAX_CONFIDENCE == 3
VALID_CHOICES  == {"left", "right", "tie"}
ERROR_NO_ACTIVE_POLICY == "No active policy found"

Raters   == 1..NumRaters
Versions == 1..NumPolicies
\* Two requests can be served at the same time.
Procs    == {1, 2}
\* The corpus: query ids and system ids.
Queries  == {1, 2}
Systems  == {1, 2, 3}

\* A pair id "a_vs_b" is the tuple <<a, b>>: left_system_id a, right_system_id b.
PairIds == {pr \in Systems \X Systems : pr[1] # pr[2]}
\* A task is identified by its natural key (query_id, pair_id).
TaskKeys == Queries \X PairIds
NoTask == <<>>

\* The orders in which an unordered SELECT can return the rows of a table.
Orders(S) ==
    {o \in [1..Cardinality(S) -> S] : \A i, j \in 1..Cardinality(S) : o[i] = o[j] => i = j}

\* Inputs a client can send with a judgment (valid and invalid ones).
ChoiceInputs     == VALID_CHOICES \cup {"both"}
ConfidenceInputs == (MIN_CONFIDENCE - 1)..(MAX_CONFIDENCE + 1)

\* The track ids and artist names of the catalogue.
TrackIds == {1, 2, 3}
Artists  == {1, 2}
\* tracks[t] for a track id that is not a key of TRACKS; seed_track_id of a
\* text query; seed_artist = None.
NoSeed   == 0
NoArtist == 0
NoTrack  == <<NoArtist>>
\* The artists lists of a track: empty, or distinct artist names, primary first.
ArtistLists == {<<>>} \cup {<<a>> : a \in Artists}
                    \cup {<<ab[1], ab[2]>> : ab \in {x \in Artists \X Artists : x[1] # x[2]}}
\* The artists lists that name one artist, and those that name at most one.
OneArtistLists == {<<a>> : a \in Artists}
SoloLists == {<<>>} \cup OneArtistLists
\* The values of max_per_artist (DEFAULT_MAX_PER_ARTIST is 1).
PerArtistCaps == {1, 2}
\* The candidate rows of one (system, query) read in rank order (rank is the
\* row's key within (system, query)); one track id may hold several ranks.
CandidateLists == UNION {[1..n -> TrackIds] : n \in 0..MaxCandidates}

VARIABLES
    raters,            \* rater ids of the rows
    queries,           \* query ids of the rows
    systems,           \* system ids of the rows
    policies,          \* policy_version -> "absent" | "inactive" | "active"
    final_lists,       \* keys <<policy_version, system_id, query_id>> of the rows
    pairs,             \* pair ids of the rows
    tasks,             \* task key -> [target_judgments, collected_judgments, done]
    task_assignments,  \* <<rater, task>> -> [rows, completed]
    judgments,         \* <<rater, task>> -> number of judgment rows
    session,           \* rater -> session['current_task'] (task key or NoTask)
    pc,                \* proc -> position of the request it is serving
    rater,             \* proc -> rater_id of the request
    asg,               \* proc -> assignments_result.data read by get_next_task
    task,              \* proc -> best_task / task_id of the request
    version,           \* proc -> policy.version of a set_policy request
    new_count,         \* proc -> new_count computed by increment_task_judgments
    is_done,           \* proc -> is_done computed by increment_task_judgments
    result,            \* proc -> outcome of the last request served
    handed,            \* <<rater, task>> -> presentations returned (history)
    calls,             \* rater requests that may still be started
    admin_ops,         \* admin requests that may still be started
    store_errors,      \* store calls that may still fail
    tracks,            \* TRACKS: track id -> artist list, or NoTrack
    candidates,        \* track ids of one (system, query), in rank order
    query,             \* the queries row of that query
    policy,            \* the policy the PostProcessor was built with
    fl_rows,           \* final_lists rows of (policy_version, system, query)
    fl_order,          \* final_order of that row
    fl_depth,          \* depth_scanned of that row
    fl_first,          \* final_order written by the first run (history)
    fl_counts,         \* filter_counts of that row
    fl_examined,       \* what the last run did with each candidate it examined (history)
    fl_raised,         \* the last run of materialize_final_list raised
    count_materialized, \* count returned by the last materialize_all_final_lists
    errors,            \* errors returned by the last materialize_all_final_lists
    fl_runs,           \* runs of materialize_final_list that may still start
    exported,          \* the judgments of the exported JSON file, in file order
    query_results,     \* query_results built by analyze_judgments
    all_stats,         \* outcome of analyze_judgments: status, use_confidence, rows
    final_order,       \* system -> final_order of its final list for the task's query
    shown              \* the presentations build_task_data has returned (history)

store == <<raters, queries, systems, policies, final_lists, pairs, tasks, task_assignments, judgments>>
locals == <<pc, rater, asg, task, version, new_count, is_done, result>>
filter_vars == <<tracks, candidates, query, policy, fl_rows, fl_order, fl_depth, fl_first, fl_runs,
                 fl_counts, fl_examined, fl_raised, count_materialized, errors>>
analysis_vars == <<exported, query_results, all_stats>>
present_vars == <<final_order, shown>>
vars == <<raters, queries, systems, policies, final_lists, pairs, tasks, task_assignments, judgments,
          session, pc, rater, asg, task, version, new_count, is_done, result,
          handed, calls, admin_ops, store_errors,
          tracks, candidates, query, policy, fl_rows, fl_order, fl_depth, fl_first, fl_runs,
          fl_counts, fl_examined, fl_raised, count_materialized, errors,
          exported, query_results, all_stats, final_order, shown>>

RECURSIVE SumOver(_, _)
SumOver(S, f) ==
    IF S = {} THEN 0
    ELSE LET x == CHOOSE y \in S : TRUE IN f[x] + SumOver(S \ {x}, f)

\* The rows of one (rater, task): how many there are, how many are completed.
NoRow == [rows |-> 0, completed |-> 0]
NoAsg == [t \in TaskKeys |-> NoRow]

\* ------------------------------------------------- scheduler.get_next_task

\* query_seen_count[q]: completed assignment rows of the rater on tasks of q.
query_seen_count(a, q) ==
    SumOver({t \in DOMAIN tasks : t[1] = q},
            [t \in TaskKeys |-> a[t].completed])

\* Mutant: the largest count over the queries is taken.
max_seen(a) ==
    CHOOSE m \in {query_seen_count(a, q) : q \in queries} :
        \A q \in queries : m >= query_seen_count(a, q)

\* min_seen: 0 when no completed assignment was counted, else the minimum over
\* all queries.
min_seen(a) ==
    IF \A q \in queries : query_seen_count(a, q) = 0 THEN 0
    ELSE CHOOSE m \in {query_seen_count(a, q) : q \in queries} :
            \A q \in queries : m <= query_seen_count(a, q)

num_systems == Cardinality(systems)

\* Mutant: ordered pairs are counted, S * (S - 1).
pairs_per_query_ordered ==
    IF num_systems >= 2 THEN num_systems * (num_systems - 1) ELSE 0

pairs_per_query ==
    IF num_systems >= 2 THEN (num_systems * (num_systems - 1)) \div 2 ELSE 0

\* Mutant: the coverage pass does not restrict the queries.
candidate_queries_all(a) == queries

candidate_queries(a) == {q \in queries : query_seen_count(a, q) = min_seen(a)}

\* Mutant: the tasks of one of the candidate queries only.
candidate_tasks_of_one(a) ==
    {t \in DOMAIN tasks : t[1] = CHOOSE q \in candidate_queries(a) : TRUE}

candidate_tasks(a) == {t \in DOMAIN tasks : t[1] \in candidate_queries(a)}

\* Mutant: tasks already assigned to the rater are not filtered out.
available_tasks_unfiltered(a) == candidate_tasks(a)

available_tasks(a) == {t \in candidate_tasks(a) : a[t].rows = 0}

\* fill_ratio(t) < fill_ratio(u), the quotients compared exactly.
fill_ratio_less(t, u) ==
    tasks[t].collected_judgments * tasks[u].target_judgments
        < tasks[u].collected_judgments * tasks[t].target_judgments

\* The loop keeps the first task of strictly smaller ratio: the first minimum in
\* the order the store returned the rows, which is any of the tied minima.
best_tasks(a) ==
    {t \in available_tasks(a) : \A u \in available_tasks(a) : ~fill_ratio_less(u, t)}

Return(p, r) ==
    /\ pc' = [pc EXCEPT ![p] = "idle"]
    /\ result' = [result EXCEPT ![p] = r]
    /\ rater' = [rater EXCEPT ![p] = 0]
    /\ asg' = [asg EXCEPT ![p] = NoAsg]
    /\ task' = [task EXCEPT ![p] = NoTask]
    /\ version' = [version EXCEPT ![p] = 0]
    /\ new_count' = [new_count EXCEPT ![p] = 0]
    /\ is_done' = [is_done EXCEPT ![p] = FALSE]

\* Lines 41-51: the queries read and the read of the rater's assignment rows.
gnt_read_assignments(p, r) ==
    /\ pc[p] = "idle"
    /\ calls > 0
    /\ calls' = calls - 1
    /\ IF queries = {}
       THEN Return(p, "no_task")
       ELSE /\ pc' = [pc EXCEPT ![p] = "gnt_select"]
            /\ rater' = [rater EXCEPT ![p] = r]
            /\ asg' = [asg EXCEPT ![p] = [t \in TaskKeys |-> task_assignments[<<r, t>>]]]
            /\ result' = [result EXCEPT ![p] = "pending"]
            /\ UNCHANGED <<task, version, new_count, is_done>>
    /\ UNCHANGED <<filter_vars, analysis_vars, present_vars, store, session, handed, admin_ops, store_errors>>

\* Lines 53-116: the counts, the stopping rule, the read of the candidate tasks
\* and the choice of best_task.
gnt_select(p) ==
    /\ pc[p] = "gnt_select"
    /\ IF min_seen(asg[p]) >= pairs_per_query \/ available_tasks(asg[p]) = {}
       THEN Return(p, "no_task")
       ELSE \E t \in best_tasks(asg[p]) :
            /\ pc' = [pc EXCEPT ![p] = "gnt_insert"]
            /\ task' = [task EXCEPT ![p] = t]
            /\ asg' = [asg EXCEPT ![p] = NoAsg]
            /\ UNCHANGED <<rater, version, new_count, is_done, result>>
    /\ UNCHANGED <<filter_vars, analysis_vars, present_vars, store, session, handed, calls, admin_ops, store_errors>>

\* The store's uniqueness constraint on task_assignments (rater_id, task_id):
\* an insert of a second row for the key is rejected.
assignment_conflict(r, t) == task_assignments[<<r, t>>].rows > 0

\* db_utils.create_task_assignment: one more row, completed = False.
create_task_assignment(r, t) ==
    task_assignments' = [task_assignments EXCEPT ![<<r, t>>].rows = @ + 1]

\* Mutant: the store's rejection of the insert is swallowed and the request
\* goes on to build the presentation.
gnt_insert_ignore_conflict(p) ==
    /\ pc[p] = "gnt_insert"
    /\ IF assignment_conflict(rater[p], task[p])
       THEN UNCHANGED task_assignments
       ELSE create_task_assignment(rater[p], task[p])
    /\ pc' = [pc EXCEPT ![p] = "gnt_build"]
    /\ UNCHANGED <<rater, asg, task, version, new_count, is_done, result>>
    /\ UNCHANGED <<filter_vars, analysis_vars, present_vars, raters, queries, systems, policies, final_lists, pairs, tasks,
                   judgments, session, handed, calls, admin_ops, store_errors>>

\* Lines 118-119: the insert; the store's rejection is raised to the route, which
\* answers with an error (app.py get_task, except branch).
gnt_insert(p) ==
    /\ pc[p] = "gnt_insert"
    /\ IF assignment_conflict(rater[p], task[p])
       THEN /\ Return(p, "error")
            /\ UNCHANGED task_assignments
       ELSE /\ create_task_assignment(rater[p], task[p])
            /\ pc' = [pc EXCEPT ![p] = "gnt_build"]
            /\ UNCHANGED <<rater, asg, task, version, new_count, is_done, result>>
    /\ UNCHANGED <<filter_vars, analysis_vars, present_vars, raters, queries, systems, policies, final_lists, pairs, tasks, judgments, session, handed,
                   calls, admin_ops, store_errors>>

\* db_utils.get_active_policy: the rows with active = True (data[0] is any of them).
active_policies == {v \in Versions : policies[v] = "active"}

\* build_task_data lines 154-165: both final lists of the pair exist under v.
final_lists_present(v, t) ==
    /\ <<v, t[2][1], t[1]>> \in final_lists
    /\ <<v, t[2][2], t[1]>> \in final_lists

\* build_task_data and the rest of the get_task route: with no active policy
\* policy['policy_version'] raises (the route answers with an error); with a
\* final list missing build_task_data returns None, which the route reports as
\* 'No tasks available'; otherwise the presentation is returned and stored in
\* the session.
gnt_build(p) ==
    /\ pc[p] = "gnt_build"
    /\ IF active_policies = {}
       THEN /\ Return(p, "error")
            /\ UNCHANGED <<session, handed>>
       ELSE \E v \in active_policies :
            IF ~final_lists_present(v, task[p])
            THEN /\ Return(p, "no_task")
                 /\ UNCHANGED <<session, handed>>
            ELSE /\ Return(p, "task")
                 /\ session' = [session EXCEPT ![rater[p]] = task[p]]
                 /\ handed' = [handed EXCEPT ![<<rater[p], task[p]>>] = @ + 1]
    /\ UNCHANGED <<filter_vars, analysis_vars, present_vars, store, calls, admin_ops, store_errors>>

\* ---------------------------------------------- scheduler.submit_judgment

\* Mutant: the lower bound of the confidence is not checked.
valid_submission_no_min(choice, confidence) ==
    /\ choice \in VALID_CHOICES
    /\ ~(confidence > MAX_CONFIDENCE)

\* Lines 246-251 (and models.JudgmentSubmission): the validation.
valid_submission(choice, confidence) ==
    /\ choice \in VALID_CHOICES
    /\ ~(confidence < MIN_CONFIDENCE \/ confidence > MAX_CONFIDENCE)

\* The submit_judgment route up to the task read of scheduler.submit_judgment:
\* the session's current task, the validation, the read of the task row.
sj_start(p, r, choice, confidence) ==
    /\ pc[p] = "idle"
    /\ calls > 0
    /\ session[r] # NoTask
    /\ calls' = calls - 1
    /\ IF ~valid_submission(choice, confidence)
       THEN Return(p, "value_error")
       ELSE IF session[r] \notin DOMAIN tasks
       THEN Return(p, "error")
       ELSE /\ pc' = [pc EXCEPT ![p] = "sj_insert"]
            /\ rater' = [rater EXCEPT ![p] = r]
            /\ task' = [task EXCEPT ![p] = session[r]]
            /\ result' = [result EXCEPT ![p] = "pending"]
            /\ UNCHANGED <<asg, version, new_count, is_done>>
    /\ UNCHANGED <<filter_vars, analysis_vars, present_vars, store, session, handed, admin_ops, store_errors>>

\* Line 282: db_utils.insert_judgment.
sj_insert(p) ==
    /\ pc[p] = "sj_insert"
    /\ judgments' = [judgments EXCEPT ![<<rater[p], task[p]>>] = @ + 1]
    /\ pc' = [pc EXCEPT ![p] = "sj_complete"]
    /\ UNCHANGED <<filter_vars, analysis_vars, present_vars, raters, queries, systems, policies, final_lists, pairs, tasks, task_assignments, session,
                   rater, asg, task, version, new_count, is_done, result, handed,
                   calls, admin_ops, store_errors>>

\* db_utils.complete_task_assignment: every row of (rater, task) gets
\* completed = True.
complete_task_assignment(r, t) ==
    task_assignments' = [task_assignments EXCEPT ![<<r, t>>].completed =
                            task_assignments[<<r, t>>].rows]

\* Line 285.
sj_complete(p) ==
    /\ pc[p] = "sj_complete"
    /\ complete_task_assignment(rater[p], task[p])
    /\ pc' = [pc EXCEPT ![p] = "sj_incr_read"]
    /\ UNCHANGED <<filter_vars, analysis_vars, present_vars, raters, queries, systems, policies, final_lists, pairs, tasks, judgments, session,
                   rater, asg, task, version, new_count, is_done, result, handed,
                   calls, admin_ops, store_errors>>

\* Mutant: done only when the target is exceeded.
target_reached_strict(count, target) == count > target

\* is_done = new_count >= task['target_judgments'].
target_reached(count, target) == count >= target

\* db_utils.increment_task_judgments lines 277-283: the read of the task row.
sj_incr_read(p) ==
    /\ pc[p] = "sj_incr_read"
    /\ new_count' = [new_count EXCEPT ![p] = tasks[task[p]].collected_judgments + 1]
    /\ is_done' = [is_done EXCEPT ![p] =
                      target_reached(tasks[task[p]].collected_judgments + 1,
                                     tasks[task[p]].target_judgments)]
    /\ pc' = [pc EXCEPT ![p] = "sj_incr_write"]
    /\ UNCHANGED <<filter_vars, analysis_vars, present_vars, store, session, rater, asg, task, version, result, handed,
                   calls, admin_ops, store_errors>>

\* db_utils.increment_task_judgments lines 285-288: the write of the values
\* computed from the row read; then the route clears the session's current task.
sj_incr_write(p) ==
    /\ pc[p] = "sj_incr_write"
    /\ tasks' = [tasks EXCEPT ![task[p]] =
                    [@ EXCEPT !.collected_judgments = new_count[p],
                              !.done = is_done[p]]]
    /\ session' = [session EXCEPT ![rater[p]] = NoTask]
    /\ Return(p, "ok")
    /\ UNCHANGED <<filter_vars, analysis_vars, present_vars, raters, queries, systems, policies, final_lists, pairs, task_assignments, judgments,
                   handed, calls, admin_ops, store_errors>>

\* A store call of submit_judgment raises (the request to the store fails): the
\* route's except branch answers with an error and nothing is undone.
sj_store_error(p) ==
    /\ pc[p] \in {"sj_insert", "sj_complete", "sj_incr_read", "sj_incr_write"}
    /\ store_errors > 0
    /\ store_errors' = store_errors - 1
    /\ Return(p, "error")
    /\ UNCHANGED <<filter_vars, analysis_vars, present_vars, store, session, handed, calls, admin_ops>>

\* ------------------------------------------------------------ admin routes

\* db_utils.set_active_policy line 159: every policy row gets active = False.
sap_deactivate(p, v) ==
    /\ pc[p] = "idle"
    /\ admin_ops > 0
    /\ admin_ops' = admin_ops - 1
    /\ policies' = [x \in Versions |->
                       IF policies[x] = "absent" THEN "absent" ELSE "inactive"]
    /\ pc' = [pc EXCEPT ![p] = "sap_upsert"]
    /\ version' = [version EXCEPT ![p] = v]
    /\ result' = [result EXCEPT ![p] = "pending"]
    /\ UNCHANGED <<filter_vars, analysis_vars, present_vars, raters, queries, systems, final_lists, pairs, tasks, task_assignments, judgments, session,
                   rater, asg, task, new_count, is_done, handed, calls, store_errors>>

\* db_utils.set_active_policy lines 162-169: the upsert of the policy, active.
sap_upsert(p) ==
    /\ pc[p] = "sap_upsert"
    /\ policies' = [policies EXCEPT ![version[p]] = "active"]
    /\ Return(p, "ok")
    /\ UNCHANGED <<filter_vars, analysis_vars, present_vars, raters, queries, systems, final_lists, pairs, tasks, task_assignments, judgments, session,
                   handed, calls, admin_ops, store_errors>>

\* post_processing.materialize_all_final_lists: with no active policy nothing is
\* written; else one final list per (query, system) under the active policy.
materialize_all_final_lists(v) ==
    final_lists \cup {<<v, s, q>> : s \in systems, q \in queries}

\* post_processing.create_pairs_from_systems: pair "a_vs_b" for every a before
\* b in system_ids.
create_pairs_from_systems(system_ids) ==
    pairs \cup {<<system_ids[ij[1]], system_ids[ij[2]]>> :
                    ij \in {x \in (1..Len(system_ids)) \X (1..Len(system_ids)) : x[1] < x[2]}}

\* The columns of a task row as create_tasks_from_pairs first writes it.
new_task(target) ==
    [target_judgments |-> target, collected_judgments |-> 0, done |-> FALSE]

\* The store's upsert of a task by its natural key (query_id, pair_id): a new
\* row takes the column defaults collected_judgments = 0, done = false; an
\* existing row takes the columns supplied (target_judgments) and keeps the rest.
upsert_task(rows, t, target) ==
    IF t \in DOMAIN rows
    THEN [rows EXCEPT ![t].target_judgments = target]
    ELSE [k \in DOMAIN rows \cup {t} |-> IF k = t THEN new_task(target) ELSE rows[k]]

RECURSIVE upsert_tasks(_, _, _)
upsert_tasks(rows, keys, target) ==
    IF keys = {} THEN rows
    ELSE LET t == CHOOSE k \in keys : TRUE
         IN upsert_tasks(upsert_task(rows, t, target), keys \ {t}, target)

\* create_tasks_from_pairs writing the table anew instead of upserting.
create_tasks_from_pairs_rebuild(pair_ids, target) ==
    [t \in queries \X pair_ids |-> new_task(target)]

\* post_processing.create_tasks_from_pairs: one upsert per (query, pair).
create_tasks_from_pairs(pair_ids, target) ==
    upsert_tasks(tasks, queries \X pair_ids, target)

\* The materialize route: final lists, then pairs, then tasks.
materialize(p, target, system_ids) ==
    /\ pc[p] = "idle"
    /\ admin_ops > 0
    /\ admin_ops' = admin_ops - 1
    /\ \/ /\ active_policies = {}
          /\ UNCHANGED final_lists
       \/ \E v \in active_policies :
             final_lists' = materialize_all_final_lists(v)
    /\ IF Len(system_ids) < 2
       THEN /\ UNCHANGED <<pairs, tasks>>
            /\ Return(p, "error")
       ELSE /\ pairs' = create_pairs_from_systems(system_ids)
            /\ tasks' = create_tasks_from_pairs(create_pairs_from_systems(system_ids), target)
            /\ Return(p, "ok")
    /\ UNCHANGED <<filter_vars, analysis_vars, present_vars, raters, queries, systems, policies, task_assignments, judgments, session, handed, calls, store_errors>>

\* ------------------------------------------- post_processing.PostProcessor

\* db_utils.get_tracks_by_ids: the keys of track_metadata.
get_tracks_by_ids(track_ids) == {t \in track_ids : tracks[t] # NoTrack}

\* track_metadata of process_query_system: the candidates' tracks found in TRACKS.
track_metadata == get_tracks_by_ids({candidates[i] : i \in 1..Len(candidates)})

\* The queries row of a query id the queries table has no row for.
NoQuery == [task_type |-> "none", seed_track_id |-> NoSeed]

\* Lines 54-57: the query is not found, ValueError is raised.
query_not_found ==
    [raised |-> TRUE, final_order |-> <<>>, filter_counts |-> <<>>,
     depth_scanned |-> 0, examined |-> <<>>]

\* Mutant: no candidates is an error.
no_candidates_raises == query_not_found

\* Lines 65-67: no candidate rows, an empty list with the no_candidates marker.
no_candidates ==
    [raised |-> FALSE, final_order |-> <<>>, filter_counts |-> [no_candidates |-> 1],
     depth_scanned |-> 0, examined |-> <<>>]

\* Lines 84-91: the seed artist of a song query under exclude_seed_artist, the
\* first artist of the seed track as track_metadata holds it.
seed_artist ==
    IF query.task_type = "song" /\ policy.exclude_seed_artist
    THEN IF query.seed_track_id \in track_metadata /\ tracks[query.seed_track_id] # <<>>
         THEN tracks[query.seed_track_id][1]
         ELSE NoArtist
    ELSE NoArtist

\* Lines 75-82 and 94-97: filter_counts and the loop's variables before the
\* first candidate; examined is the history of the loop's iterations.
scan_start ==
    [final_list |-> <<>>, seen_track_ids |-> {},
     artist_counts |-> [a \in Artists |-> 0], depth_scanned |-> 0,
     filter_counts |-> [seed_track_excluded |-> 0, seed_artist_excluded |-> 0,
                        duplicate_track_skipped |-> 0, duplicate_artist_skipped |-> 0,
                        insufficient_results |-> 0],
     examined |-> <<>>]

\* Mutant: the seed track is dropped only under exclude_seed_artist.
is_seed_track_if_excluding(track_id) ==
    policy.exclude_seed_artist /\ track_id = query.seed_track_id

\* Filter 1 (lines 113-117): the candidate is the query's seed track.
is_seed_track(track_id) == track_id = query.seed_track_id

\* Mutant: only the primary artist of the track is compared.
seed_artist_primary(track_id) ==
    /\ seed_artist # NoArtist
    /\ tracks[track_id] # <<>>
    /\ tracks[track_id][1] = seed_artist

\* Filter 2 (lines 119-126): any artist of the track is the seed artist.
seed_artist_excluded(track_id) ==
    /\ seed_artist # NoArtist
    /\ tracks[track_id] # <<>>
    /\ \E i \in 1..Len(tracks[track_id]) : tracks[track_id][i] = seed_artist

\* Mutant: duplicates are not looked for.
duplicate_track_never(acc, track_id) == FALSE

\* Filter 3 (lines 128-131): the track id was already accepted.
duplicate_track(acc, track_id) == track_id \in acc.seen_track_ids

\* Mutant: the cap is compared with > instead of >=.
artist_cap_exceeded(acc, track_id) ==
    /\ tracks[track_id] # <<>>
    /\ acc.artist_counts[tracks[track_id][1]] > policy.max_per_artist

\* Filter 4 (lines 133-142): the primary artist already has max_per_artist tracks.
artist_cap_reached(acc, track_id) ==
    /\ tracks[track_id] # <<>>
    /\ acc.artist_counts[tracks[track_id][1]] >= policy.max_per_artist

\* Lines 109-111: the track is not in track_metadata, the loop continues.
not_found(acc) == [acc EXCEPT !.examined = Append(@, "not_found")]

\* A filter's branch: its count is advanced, the loop continues.
reject(acc, reason) ==
    [acc EXCEPT !.filter_counts[reason] = @ + 1, !.examined = Append(@, reason)]

\* Mutant: the track is put at the head of the list.
accept_first(acc, track_id) ==
    [acc EXCEPT !.final_list = <<track_id>> \o @,
                !.seen_track_ids = @ \cup {track_id},
                !.artist_counts =
                    IF tracks[track_id] # <<>>
                    THEN [@ EXCEPT ![tracks[track_id][1]] = @ + 1]
                    ELSE @,
                !.examined = Append(@, "accepted")]

\* Lines 144-149: the track is accepted.
accept(acc, track_id) ==
    [acc EXCEPT !.final_list = Append(@, track_id),
                !.seen_track_ids = @ \cup {track_id},
                !.artist_counts =
                    IF tracks[track_id] # <<>>
                    THEN [@ EXCEPT ![tracks[track_id][1]] = @ + 1]
                    ELSE @,
                !.examined = Append(@, "accepted")]

\* Lines 107-149: one candidate through the filter chain.
filter_candidate(acc, track_id) ==
    IF track_id \notin track_metadata THEN not_found(acc)
    ELSE IF is_seed_track(track_id) THEN reject(acc, "seed_track_excluded")
    ELSE IF seed_artist_excluded(track_id) THEN reject(acc, "seed_artist_excluded")
    ELSE IF duplicate_track(acc, track_id) THEN reject(acc, "duplicate_track_skipped")
    ELSE IF artist_cap_reached(acc, track_id) THEN reject(acc, "duplicate_artist_skipped")
    ELSE accept(acc, track_id)

\* Mutant: the loop is left one track late.
output_full_late(acc) == Len(acc.final_list) > policy.final_k

\* Lines 103-105: final_k tracks are accepted, the loop is left.
output_full(acc) == Len(acc.final_list) >= policy.final_k

\* Lines 99-149: the loop over the candidates from index i on; depth_scanned is
\* advanced before the test of final_k that leaves the loop.
RECURSIVE scan(_, _)
scan(i, acc) ==
    IF i > Len(candidates) THEN acc
    ELSE LET counted == [acc EXCEPT !.depth_scanned = @ + 1]
         IN IF output_full(counted)
            THEN counted
            ELSE scan(i + 1, filter_candidate(counted, candidates[i]))

\* Lines 151-162: insufficient_results is set and the three values are returned.
scanned(acc) ==
    [raised |-> FALSE,
     final_order |-> acc.final_list,
     filter_counts |->
         IF Len(acc.final_list) < policy.final_k
         THEN [acc.filter_counts EXCEPT
                   !.insufficient_results = policy.final_k - Len(acc.final_list)]
         ELSE acc.filter_counts,
     depth_scanned |-> acc.depth_scanned,
     examined |-> acc.examined]

\* PostProcessor.process_query_system: final_order, filter_counts and
\* depth_scanned, or the error raised.
process_query_system ==
    IF query = NoQuery THEN query_not_found
    ELSE IF candidates = <<>> THEN no_candidates
    ELSE scanned(scan(1, scan_start))

\* The store's upsert of a final_lists row by its key (policy_version,
\* system_id, query_id): the number of rows of the key afterwards.
upsert_final_list(rows) == IF rows = 0 THEN 1 ELSE rows

\* Mutant: the row is inserted, not upserted.
materialize_final_list_insert ==
    /\ fl_runs > 0
    /\ fl_runs' = fl_runs - 1
    /\ \E r \in {process_query_system} :
          /\ fl_raised' = r.raised
          /\ fl_examined' = r.examined
          /\ IF r.raised
             THEN UNCHANGED <<fl_rows, fl_order, fl_depth, fl_counts, fl_first>>
             ELSE /\ fl_rows' = fl_rows + 1
                  /\ fl_order' = r.final_order
                  /\ fl_counts' = r.filter_counts
                  /\ fl_depth' = r.depth_scanned
                  /\ fl_first' = IF fl_rows = 0 THEN r.final_order ELSE fl_first
    /\ UNCHANGED <<tracks, candidates, query, policy, count_materialized, errors>>
    /\ UNCHANGED <<store, session, locals, handed, calls, admin_ops, store_errors,
                   analysis_vars, present_vars>>

\* PostProcessor.materialize_final_list: the list is computed and upserted; an
\* error of process_query_system leaves the table as it is.
materialize_final_list ==
    /\ fl_runs > 0
    /\ fl_runs' = fl_runs - 1
    /\ \E r \in {process_query_system} :
          /\ fl_raised' = r.raised
          /\ fl_examined' = r.examined
          /\ IF r.raised
             THEN UNCHANGED <<fl_rows, fl_order, fl_depth, fl_counts, fl_first>>
             ELSE /\ fl_rows' = upsert_final_list(fl_rows)
                  /\ fl_order' = r.final_order
                  /\ fl_counts' = r.filter_counts
                  /\ fl_depth' = r.depth_scanned
                  /\ fl_first' = IF fl_rows = 0 THEN r.final_order ELSE fl_first
    /\ UNCHANGED <<tracks, candidates, query, policy, count_materialized, errors>>
    /\ UNCHANGED <<store, session, locals, handed, calls, admin_ops, store_errors,
                   analysis_vars, present_vars>>

\* Lines 221-222: the (query, system) combinations in the order of the two
\* loops, query_ids and system_ids in the order the selects returned them.
combinations(query_ids, system_ids) ==
    [k \in 1..(Len(query_ids) * Len(system_ids)) |->
        <<query_ids[((k - 1) \div Len(system_ids)) + 1],
          system_ids[((k - 1) % Len(system_ids)) + 1]>>]

\* Line 225: materialize_final_list returned, the row is written and counted.
materialized(acc, v, c) ==
    [acc EXCEPT !.count = @ + 1, !.rows = @ \cup {<<v, c[2], c[1]>>}]

\* Lines 226-229: materialize_final_list raised, the message is appended.
errored(acc, c) ==
    [acc EXCEPT !.errors = Append(@, <<"Error materializing", c[2], c[1]>>)]

\* Mutant: the first error ends the loops.
RECURSIVE materialize_until_error(_, _, _, _)
materialize_until_error(todo, v, failing, acc) ==
    IF todo = <<>> THEN acc
    ELSE IF Head(todo) \in failing
         THEN errored(acc, Head(todo))
         ELSE materialize_until_error(Tail(todo), v, failing,
                                      materialized(acc, v, Head(todo)))

\* Lines 217-229: the loops over the combinations still to do; failing are the
\* combinations on which materialize_final_list raises.
RECURSIVE materialize_each(_, _, _, _)
materialize_each(todo, v, failing, acc) ==
    IF todo = <<>> THEN acc
    ELSE materialize_each(Tail(todo), v, failing,
                          IF Head(todo) \in failing
                          THEN errored(acc, Head(todo))
                          ELSE materialized(acc, v, Head(todo)))

\* post_processing.materialize_all_final_lists with its return values: without
\* an active policy (0, [ERROR_NO_ACTIVE_POLICY]); else every combination is
\* tried, an exception of one is caught and recorded.
materialize_all(query_ids, system_ids, failing) ==
    /\ fl_runs > 0
    /\ fl_runs' = fl_runs - 1
    /\ IF active_policies = {}
       THEN /\ count_materialized' = 0
            /\ errors' = <<ERROR_NO_ACTIVE_POLICY>>
            /\ UNCHANGED final_lists
       ELSE \E v \in active_policies :
            \E r \in {materialize_each(combinations(query_ids, system_ids), v, failing,
                                       [count |-> 0, errors |-> <<>>, rows |-> final_lists])} :
               /\ count_materialized' = r.count
               /\ errors' = r.errors
               /\ final_lists' = r.rows
    /\ UNCHANGED <<tracks, candidates, query, policy, fl_rows, fl_order, fl_depth, fl_first,
                   fl_counts, fl_examined, fl_raised>>
    /\ UNCHANGED <<raters, queries, systems, policies, pairs, tasks, task_assignments, judgments,
                   session, locals, handed, calls, admin_ops, store_errors,
                   analysis_vars, present_vars>>

\* ------------------------------------------------------- analysis of results

\* confidence = None in a judgment; --system_order not given; system_a of the
\* row of an empty stratum.
NoConfidence == 0
NoOrder == <<>>
NoSystem == 0

\* The values of --system_order tried.
SystemOrders == {NoOrder, <<1, 2>>, <<2, 1>>}
\* The genres of the queries.
Genres == {"pop", "rock"}

\* export_judgments_json: the judgment row as build_task_data presented it
\* (sides swapped when the coin flipped) and submit_judgment stored it, with the
\* query_id and pair_id of its task and the task_type and genres of its query.
enriched(query_id, pair_id, flip, choice, confidence, genres) ==
    [query_id |-> query_id,
     pair_id |-> pair_id,
     choice |-> choice,
     confidence |-> confidence,
     left_system_id |-> IF flip THEN pair_id[2] ELSE pair_id[1],
     right_system_id |-> IF flip THEN pair_id[1] ELSE pair_id[2],
     task_type |-> "text",
     genres |-> genres]

\* analyze_judgments lines 329-335: the judgments of one (query_id, pair_id) and
\* of one query_id, in file order.
judgments_by_query_pair(js, key) ==
    SelectSeq(js, LAMBDA j : <<j.query_id, j.pair_id>> = key)

judgments_by_query(js, query_id) ==
    SelectSeq(js, LAMBDA j : j.query_id = query_id)

\* The keys of judgments_by_query_pair in the order the dict holds them: the
\* order of their first judgment in the file.
RECURSIVE group_keys(_)
group_keys(js) ==
    IF js = <<>> THEN <<>>
    ELSE LET rest == group_keys(SubSeq(js, 1, Len(js) - 1))
             last == js[Len(js)]
             key  == <<last.query_id, last.pair_id>>
         IN  IF \E i \in DOMAIN rest : rest[i] = key THEN rest ELSE Append(rest, key)

\* aggregate_majority_vote lines 72-79 and 96-99: the votes of a choice, or with
\* use_confidence the sum of the confidences that are not None.
score(js, choice, use_confidence) ==
    SumOver(DOMAIN js,
            [i \in DOMAIN js |->
                IF js[i].choice # choice THEN 0
                ELSE IF ~use_confidence THEN 1
                ELSE IF js[i].confidence # NoConfidence THEN js[i].confidence
                ELSE 0])

\* The greatest of the scores.
max_score(scores) ==
    CHOOSE m \in {scores[c] : c \in VALID_CHOICES} : \A c \in VALID_CHOICES : scores[c] <= m

\* The first choice of greatest score in the order left, right, tie.
first_winner(scores) ==
    IF scores["left"] = max_score(scores) THEN "left"
    ELSE IF scores["right"] = max_score(scores) THEN "right"
    ELSE "tie"

\* Lines 83-87 and 103-107: the one choice of greatest score, 'tie' when several
\* choices have it.
winner_of(scores) ==
    LET winners == {c \in VALID_CHOICES : scores[c] = max_score(scores)}
    IN  IF Cardinality(winners) > 1 THEN "tie" ELSE CHOOSE c \in winners : TRUE

\* aggregate_majority_vote on a non-empty group (analyze_judgments makes no
\* empty group): the details dict; the systems are those of the first judgment.
aggregate_majority_vote(js, query_id, pair_id, use_confidence) ==
    LET scores == [c \in VALID_CHOICES |-> score(js, c, use_confidence)]
    IN  [query_id |-> query_id,
         pair_id |-> pair_id,
         left_system |-> js[1].left_system_id,
         right_system |-> js[1].right_system_id,
         winner |-> winner_of(scores),
         scores |-> scores,
         n_judgments |-> Len(js)]

\* The binomial coefficient C(n, k).
RECURSIVE comb(_, _)
comb(n, k) == IF k = 0 THEN 1 ELSE (comb(n, k - 1) * (n - k + 1)) \div k

\* P(X <= successes) for X binomial(trials, 1/2), as <<numerator, denominator>>.
binomial_test_pvalue_one_sided(successes, trials) ==
    IF trials = 0 THEN <<1, 1>>
    ELSE <<SumOver(0..successes, [i \in 0..trials |-> comb(trials, i)]), 2^trials>>

\* binomial_test_pvalue: 1.0 without trials, else binomtest(successes, trials,
\* 0.5, 'two-sided').pvalue, the probability of the outcomes no more likely than
\* the one observed, as the exact fraction <<numerator, denominator>>.
binomial_test_pvalue(successes, trials) ==
    IF trials = 0 THEN <<1, 1>>
    ELSE <<SumOver({i \in 0..trials : comb(trials, i) <= comb(trials, successes)},
                   [i \in 0..trials |-> comb(trials, i)]),
           2^trials>>

\* compute_pairwise_stats lines 200-203.
all_systems(results) ==
    {results[i].left_system : i \in DOMAIN results}
        \cup {results[i].right_system : i \in DOMAIN results}

\* The test of line 205 left out.
wrong_system_count_never(found) == FALSE

\* Line 205: the results do not name exactly two systems.
wrong_system_count(found) == Cardinality(found) # 2

\* Line 211: a system_order is given and does not name the systems of the data.
order_mismatch(system_order, found) ==
    system_order # NoOrder /\ {system_order[1], system_order[2]} # found

\* Lines 209-216: system_a, or the first system in alphabetical order.
system_a_of(system_order, found) ==
    IF system_order # NoOrder THEN system_order[1]
    ELSE CHOOSE s \in found : \A x \in found : s <= x

\* Lines 209-216: system_b, or the last system in alphabetical order.
system_b_of(system_order, found) ==
    IF system_order # NoOrder THEN system_order[2]
    ELSE CHOOSE s \in found : \A x \in found : x <= s

\* A result counted for system_a whenever the left side won.
won_by_a_left_only(r, system_a) == r.winner = "left"

\* Lines 228-231 and 234-237: the side that won r holds system_a.
won_by_a(r, system_a) ==
    \/ r.winner = "left" /\ r.left_system = system_a
    \/ r.winner = "right" /\ r.right_system = system_a

\* Lines 232-233 and 238-239: the side that won r does not hold system_a.
won_by_b(r, system_a) ==
    \/ r.winner = "left" /\ r.left_system # system_a
    \/ r.winner = "right" /\ r.right_system # system_a

\* Line 245: win_rate as the fraction <<numerator, denominator>>.
win_rate_of(wins_a, n_decisive, n_queries) ==
    IF n_decisive > 0 THEN <<wins_a, n_decisive>> ELSE <<1, 2>>

\* The exception raised by lines 206 and 212.
ValueError == [raised |-> TRUE]

\* compute_pairwise_stats: the row of one stratum (without the Wilson
\* interval), or ValueError.
compute_pairwise_stats(results, stratification_type, stratification_value, system_order) ==
    IF results = <<>>
    THEN [raised |-> FALSE,
          stratification_type |-> stratification_type,
          stratification_value |-> stratification_value,
          n_queries |-> 0, system_a |-> NoSystem, system_b |-> NoSystem,
          wins_a |-> 0, wins_b |-> 0, ties |-> 0,
          win_rate |-> <<0, 1>>, tie_rate |-> <<0, 1>>, p_value |-> <<1, 1>>]
    ELSE IF wrong_system_count(all_systems(results)) THEN ValueError
    ELSE IF order_mismatch(system_order, all_systems(results)) THEN ValueError
    ELSE LET system_a == system_a_of(system_order, all_systems(results))
             system_b == system_b_of(system_order, all_systems(results))
             wins_a == Cardinality({i \in DOMAIN results : won_by_a(results[i], system_a)})
             wins_b == Cardinality({i \in DOMAIN results : won_by_b(results[i], system_a)})
             ties == Cardinality({i \in DOMAIN results : results[i].winner = "tie"})
             n_queries == Len(results)
             n_decisive == wins_a + wins_b
         IN  [raised |-> FALSE,
              stratification_type |-> stratification_type,
              stratification_value |-> stratification_value,
              n_queries |-> n_queries, system_a |-> system_a, system_b |-> system_b,
              wins_a |-> wins_a, wins_b |-> wins_b, ties |-> ties,
              win_rate |-> win_rate_of(wins_a, n_decisive, n_queries),
              tie_rate |-> <<ties, n_queries>>,
              p_value |-> binomial_test_pvalue(wins_a, n_decisive)]

\* stratify_by_task_type: the results of each task type, the type read from the
\* first judgment of the result's query.
stratify_by_task_type(results, js) ==
    [tt \in {judgments_by_query(js, results[i].query_id)[1].task_type : i \in DOMAIN results} |->
        SelectSeq(results, LAMBDA r : judgments_by_query(js, r.query_id)[1].task_type = tt)]

\* The bucket names a result is appended to (lines 302-310).
genre_keys(genres) ==
    IF genres = <<>> THEN {"unspecified"} ELSE {genres[i] : i \in DOMAIN genres}

\* stratified[genre] at the end of the loop of stratify_by_genre: each result
\* appended once for every entry of its genres list that is genre, or once to
\* 'unspecified' when the list is empty.
RECURSIVE genre_bucket(_, _, _)
genre_bucket(results, js, genre) ==
    IF results = <<>> THEN <<>>
    ELSE LET r == results[Len(results)]
             genres == judgments_by_query(js, r.query_id)[1].genres
             appends == IF genres = <<>>
                        THEN (IF genre = "unspecified" THEN 1 ELSE 0)
                        ELSE Cardinality({i \in DOMAIN genres : genres[i] = genre})
         IN  genre_bucket(SubSeq(results, 1, Len(results) - 1), js, genre)
                 \o [i \in 1..appends |-> r]

\* stratify_by_genre: the genres are read from the first judgment of the
\* result's query.
stratify_by_genre(results, js) ==
    [genre \in UNION {genre_keys(judgments_by_query(js, results[i].query_id)[1].genres) :
                          i \in DOMAIN results} |->
        genre_bucket(results, js, genre)]

\* analyze_judgments lines 341-346: one result per (query_id, pair_id).
majority_results(js, use_confidence) ==
    LET keys == group_keys(js)
    IN  [n \in DOMAIN keys |->
            aggregate_majority_vote(judgments_by_query_pair(js, keys[n]),
                                    keys[n][1], keys[n][2], use_confidence)]

\* analyze_judgments lines 354-367: the results of every stratum, keyed by
\* <<stratification_type, stratification_value>>.
strata(results, js) ==
    LET by_task_type == stratify_by_task_type(results, js)
        by_genre == stratify_by_genre(results, js)
    IN  [k \in {<<"overall", "all">>}
                   \cup {<<"task_type", tt>> : tt \in DOMAIN by_task_type}
                   \cup {<<"genre", g>> : g \in DOMAIN by_genre} |->
            IF k[1] = "overall" THEN results
            ELSE IF k[1] = "task_type" THEN by_task_type[k[2]]
            ELSE by_genre[k[2]]]

\* No analysis has run.
NoStats == [status |-> "none", use_confidence |-> FALSE, rows |-> <<>>]

\* analyze_judgments as main calls it on a non-empty file: the statistics of
\* every stratum, or the ValueError of the first stratum that raises.
analyze_judgments(use_confidence, system_order) ==
    /\ all_stats.status = "none"
    /\ exported # <<>>
    /\ \E results \in {majority_results(exported, use_confidence)} :
       \E groups \in {strata(results, exported)} :
       \E stats \in {[k \in DOMAIN groups |->
                         compute_pairwise_stats(groups[k], k[1], k[2], system_order)]} :
          /\ query_results' = results
          /\ all_stats' = IF \E k \in DOMAIN stats : stats[k].raised
                          THEN [status |-> "ValueError", use_confidence |-> use_confidence,
                                rows |-> <<>>]
                          ELSE [status |-> "ok", use_confidence |-> use_confidence,
                                rows |-> stats]
    /\ UNCHANGED <<exported, store, session, locals, handed, calls, admin_ops, store_errors,
                   filter_vars, present_vars>>

\* compute_pairwise_stats applied to the results at hand as one stratum.
compute_stats(system_order) ==
    /\ all_stats.status = "none"
    /\ LET row == compute_pairwise_stats(query_results, "overall", "all", system_order)
       IN  all_stats' = IF row.raised
                        THEN [status |-> "ValueError", use_confidence |-> FALSE, rows |-> <<>>]
                        ELSE [status |-> "ok", use_confidence |-> FALSE,
                              rows |-> [k \in {<<"overall", "all">>} |-> row]]
    /\ UNCHANGED <<exported, query_results, store, session, locals, handed, calls, admin_ops,
                   store_errors, filter_vars, present_vars>>

\* ------------------------------------------------------------ presentation

\* The values of rng_seed (16 hex digits of a SHA-256 digest in the code).
Seeds == 0..3
\* The generator random.Random is a deterministic stream fixed by its seed; a
\* linear congruential generator of this modulus stands for it.
RngModulus == 8

\* The generator initialised from the requests served before, not from rng_seed.
rng_unseeded(rng_seed) == (rng_seed + Len(shown)) % RngModulus

\* scheduler.build_task_data line 176: random.Random(rng_seed).
rng(rng_seed) == rng_seed % RngModulus

\* One draw: the next state of the generator.
rng_next(s) == (5 * s + 3) % RngModulus

\* rng.shuffle(x) from state s: for i from the last position down to the second,
\* x[i] is swapped with x[j], j drawn among the first i positions.
RECURSIVE shuffle(_, _, _)
shuffle(x, i, s) ==
    IF i < 2 THEN [list |-> x, state |-> s]
    ELSE LET j == (rng_next(s) % i) + 1
         IN  shuffle([x EXCEPT ![i] = x[j], ![j] = x[i]], i - 1, rng_next(s))

\* Lines 199-203: the tracks of a shuffled list that TRACKS has metadata for,
\* in the list's order.
with_metadata(shuffled) == SelectSeq(shuffled, LAMBDA t : t \in get_tracks_by_ids(TrackIds))

\* Mutant: the coin flip swaps the system ids and leaves the lists where they were.
task_data_ids_swapped(rng_seed, pair_id) ==
    LET s == rng_next(rng(rng_seed))
        flip == 2 * s < RngModulus
        left_system_id == IF flip THEN pair_id[2] ELSE pair_id[1]
        right_system_id == IF flip THEN pair_id[1] ELSE pair_id[2]
        left_shuffled == shuffle(final_order[pair_id[1]],
                                 Len(final_order[pair_id[1]]), s)
        right_shuffled == shuffle(final_order[pair_id[2]],
                                  Len(final_order[pair_id[2]]), left_shuffled.state)
    IN  [rng_seed |-> rng_seed,
         pair_id |-> pair_id,
         left_system_id |-> left_system_id,
         right_system_id |-> right_system_id,
         left_list |-> with_metadata(left_shuffled.list),
         right_list |-> with_metadata(right_shuffled.list)]

\* build_task_data lines 176-223: the coin flip for the sides, then the two
\* shuffles, all drawn from the generator seeded with rng_seed, then the
\* tracks without metadata are left out.
task_data(rng_seed, pair_id) ==
    LET s == rng_next(rng(rng_seed))
        flip == 2 * s < RngModulus
        left_system_id == IF flip THEN pair_id[2] ELSE pair_id[1]
        right_system_id == IF flip THEN pair_id[1] ELSE pair_id[2]
        left_shuffled == shuffle(final_order[left_system_id],
                                 Len(final_order[left_system_id]), s)
        right_shuffled == shuffle(final_order[right_system_id],
                                  Len(final_order[right_system_id]), left_shuffled.state)
    IN  [rng_seed |-> rng_seed,
         pair_id |-> pair_id,
         left_system_id |-> left_system_id,
         right_system_id |-> right_system_id,
         left_list |-> with_metadata(left_shuffled.list),
         right_list |-> with_metadata(right_shuffled.list)]

\* build_task_data from line 167 on, for a task of one of the pairs with both
\* final lists present; rng_seed is the digest of task, rater and time.
build_task_data(rng_seed) ==
    /\ Len(shown) < MaxShown
    /\ \E pair_id \in pairs : shown' = Append(shown, task_data(rng_seed, pair_id))
    /\ UNCHANGED <<final_order, store, session, locals, handed, calls, admin_ops, store_errors,
                   filter_vars, analysis_vars>>

\* ------------------------------------------------------------ specification

\* The steps of the rater routes get_task and submit_judgment served by p.
RaterStep(p) ==
    \/ \E r \in raters : gnt_read_assignments(p, r)
    \/ gnt_select(p)
    \/ gnt_insert(p)
    \/ gnt_build(p)
    \/ \E r \in raters, c \in ChoiceInputs, k \in ConfidenceInputs : sj_start(p, r, c, k)
    \/ sj_insert(p)
    \/ sj_complete(p)
    \/ sj_incr_read(p)
    \/ sj_incr_write(p)
    \/ sj_store_error(p)

\* The steps of the admin routes set_policy and materialize served by p.
AdminStep(p) ==
    \/ \E v \in Versions : sap_deactivate(p, v)
    \/ sap_upsert(p)
    \/ \E n \in 1..MaxTarget, o \in Orders(systems) : materialize(p, n, o)

\* No candidates, final list or materialization under study.
InitNoLists ==
    /\ candidates = <<>>
    /\ query = [task_type |-> "text", seed_track_id |-> NoSeed]
    /\ policy = [final_k |-> 0, max_per_artist |-> 1, exclude_seed_artist |-> FALSE]
    /\ fl_rows = 0
    /\ fl_order = <<>>
    /\ fl_depth = 0
    /\ fl_first = <<>>
    /\ fl_counts = <<>>
    /\ fl_examined = <<>>
    /\ fl_raised = FALSE
    /\ count_materialized = 0
    /\ errors = <<>>
    /\ fl_runs = 0

\* No catalogue, candidates or final list under study.
InitNoFilter ==
    /\ tracks = [t \in TrackIds |-> NoTrack]
    /\ InitNoLists

\* No exported file under analysis; no presentation under study.
InitNoAnalysis ==
    /\ exported = <<>>
    /\ query_results = <<>>
    /\ all_stats = NoStats

InitNoPresent ==
    /\ final_order = [s \in Systems |-> <<>>]
    /\ shown = <<>>

\* No request in progress, no session, nothing offered or judged yet.
InitRequests(budget) ==
    /\ task_assignments = [k \in Raters \X TaskKeys |-> NoRow]
    /\ judgments = [k \in Raters \X TaskKeys |-> 0]
    /\ session = [r \in Raters |-> NoTask]
    /\ pc = [p \in Procs |-> "idle"]
    /\ rater = [p \in Procs |-> 0]
    /\ asg = [p \in Procs |-> NoAsg]
    /\ task = [p \in Procs |-> NoTask]
    /\ version = [p \in Procs |-> 0]
    /\ new_count = [p \in Procs |-> 0]
    /\ is_done = [p \in Procs |-> FALSE]
    /\ result = [p \in Procs |-> "none"]
    /\ handed = [k \in Raters \X TaskKeys |-> 0]
    /\ calls = budget
    /\ admin_ops = MaxAdminOps
    /\ store_errors = MaxStoreErrors
    /\ InitNoFilter

\* The store after the uploads of queries qs and systems ss, set_policy of
\* version 1 and one run of materialize (systems returned in ascending order).
InitMaterialized(rs, qs, ss, budget) ==
    /\ raters = rs
    /\ queries = qs
    /\ systems = ss
    /\ policies = [v \in Versions |-> IF v = 1 THEN "active" ELSE "absent"]
    /\ final_lists = {<<1, s, q>> : s \in ss, q \in qs}
    /\ pairs = {pr \in ss \X ss : pr[1] < pr[2]}
    /\ \E n \in 1..MaxTarget :
          tasks = [t \in qs \X {pr \in ss \X ss : pr[1] < pr[2]} |-> new_task(n)]
    /\ InitRequests(budget)
    /\ InitNoAnalysis
    /\ InitNoPresent

\* The store after the uploads of queries qs and systems ss alone.
InitUploaded(rs, qs, ss, budget) ==
    /\ raters = rs
    /\ queries = qs
    /\ systems = ss
    /\ policies = [v \in Versions |-> "absent"]
    /\ final_lists = {}
    /\ pairs = {}
    /\ tasks = <<>>
    /\ InitRequests(budget)
    /\ InitNoAnalysis
    /\ InitNoPresent

\* Concurrent rater requests on a materialized store of one query, two systems.
Next == \E p \in Procs : RaterStep(p)

Spec == InitMaterialized(Raters, {1}, {1, 2}, MaxCalls) /\ [][Next]_vars

\* The same with the shorter budget of requests.
SpecRace == InitMaterialized(Raters, {1}, {1, 2}, MaxRaceCalls) /\ [][Next]_vars

\* Rater requests served one at a time on the materialized store of the whole
\* corpus.
NextSerial == RaterStep(1)

SpecSerial == InitMaterialized({1}, Queries, Systems, MaxSerialCalls) /\ [][NextSerial]_vars

\* One rater on the materialized store of the whole corpus, the requests served
\* one at a time, every submission valid and no store call failing; the rater
\* may ask for the next task with or without having submitted the last one.
NextCoverage ==
    \/ \E r \in raters : gnt_read_assignments(1, r)
    \/ gnt_select(1)
    \/ gnt_insert(1)
    \/ gnt_build(1)
    \/ \E r \in raters : sj_start(1, r, "left", MAX_CONFIDENCE)
    \/ sj_insert(1)
    \/ sj_complete(1)
    \/ sj_incr_read(1)
    \/ sj_incr_write(1)

SpecCoverage == InitMaterialized({1}, Queries, Systems, MaxCoverageCalls) /\ [][NextCoverage]_vars

\* Rater requests served one at a time, the raters sharing the one task of a
\* store of one query and two systems.
SpecShared == InitMaterialized(Raters, {1}, {1, 2}, MaxCalls) /\ [][NextSerial]_vars

\* Admin and rater requests served one at a time, from the uploads on.
NextAdmin == RaterStep(1) \/ AdminStep(1)

SpecAdmin == InitUploaded({1}, {1}, {1, 2}, MaxAdminCalls) /\ [][NextAdmin]_vars

\* The queries rows: a text query, or a song query with its seed track.
QueryRows ==
    {[task_type |-> "text", seed_track_id |-> NoSeed]}
        \cup {[task_type |-> "song", seed_track_id |-> t] : t \in TrackIds}

\* The policies a PostProcessor can be built with.
PolicyRows ==
    [final_k : 0..MaxFinalK, max_per_artist : PerArtistCaps, exclude_seed_artist : BOOLEAN]

\* No rater and no task: the tables of assignments and judgments are empty and
\* no request is served or can be started.
InitNoRaters ==
    /\ task_assignments = <<>>
    /\ judgments = <<>>
    /\ session = <<>>
    /\ handed = <<>>
    /\ pc = [p \in Procs |-> "idle"]
    /\ rater = [p \in Procs |-> 0]
    /\ asg = [p \in Procs |-> <<>>]
    /\ task = [p \in Procs |-> NoTask]
    /\ version = [p \in Procs |-> 0]
    /\ new_count = [p \in Procs |-> 0]
    /\ is_done = [p \in Procs |-> FALSE]
    /\ result = [p \in Procs |-> "none"]
    /\ calls = 0
    /\ admin_ops = 0
    /\ store_errors = 0

\* A catalogue with the artists lists of lists, a queries row of rows and the
\* candidates of one system for the query; nothing materialized yet; no rater
\* request and no other admin request is served.
InitFilterOf(lists, rows, runs) ==
    /\ tracks \in [TrackIds -> lists]
    /\ candidates \in CandidateLists
    /\ query \in rows
    /\ policy \in PolicyRows
    /\ fl_rows = 0
    /\ fl_order = <<>>
    /\ fl_depth = 0
    /\ fl_first = <<>>
    /\ fl_counts = <<>>
    /\ fl_examined = <<>>
    /\ fl_raised = FALSE
    /\ count_materialized = 0
    /\ errors = <<>>
    /\ fl_runs = runs
    /\ raters = {}
    /\ queries = {1}
    /\ systems = {1}
    /\ policies = [v \in Versions |-> IF v = 1 THEN "active" ELSE "absent"]
    /\ final_lists = {}
    /\ pairs = {}
    /\ tasks = <<>>
    /\ InitNoRaters
    /\ InitNoAnalysis
    /\ InitNoPresent

\* The store right after the uploads: the query has its row, and every
\* candidate and the seed track are keys of TRACKS (insert_candidates and
\* insert_queries reject the others).
InitFilter(lists, runs) == InitFilterOf(lists, QueryRows, runs)

\* One run of materialize_final_list for one (policy, system, query).
NextFilter == materialize_final_list

SpecFilter == InitFilter(SoloLists, 1) /\ [][NextFilter]_vars

\* Repeated runs of materialize_final_list over the same inputs.
SpecRerun == InitFilter(OneArtistLists, MaxRuns) /\ [][NextFilter]_vars

\* Tracks with a featured artist: every track names one or two artists.
FeaturedLists == ArtistLists \ {<<>>}

SpecFeatured == InitFilter(FeaturedLists, 1) /\ [][NextFilter]_vars

\* Runs of materialize_all_final_lists on a store of some queries and systems
\* with at most one active policy; any set of combinations may fail in a run.
InitBatch ==
    /\ queries \in SUBSET Queries
    /\ systems \in SUBSET Systems
    /\ \E a \in Versions \cup {0} :
          policies = [v \in Versions |-> IF v = a THEN "active" ELSE "absent"]
    /\ raters = {}
    /\ final_lists = {}
    /\ pairs = {}
    /\ tasks = <<>>
    /\ InitNoRaters
    /\ InitNoAnalysis
    /\ InitNoPresent
    /\ tracks = [t \in TrackIds |-> NoTrack]
    /\ candidates = <<>>
    /\ query = NoQuery
    /\ policy = [final_k |-> 0, max_per_artist |-> 1, exclude_seed_artist |-> FALSE]
    /\ fl_rows = 0
    /\ fl_order = <<>>
    /\ fl_depth = 0
    /\ fl_first = <<>>
    /\ fl_counts = <<>>
    /\ fl_examined = <<>>
    /\ fl_raised = FALSE
    /\ count_materialized = 0
    /\ errors = <<>>
    /\ fl_runs = MaxBatchRuns

NextBatch ==
    \E query_ids \in Orders(queries), system_ids \in Orders(systems),
       failing \in SUBSET (queries \X systems) :
        materialize_all(query_ids, system_ids, failing)

SpecBatch == InitBatch /\ [][NextBatch]_vars

\* The catalogue of this start of the application (TRACKS is read from the
\* --tracks file) may lack tracks that candidates and queries of the store
\* name, and the filter may be asked for a query id that has no row.
SpecCatalogue ==
    InitFilterOf(OneArtistLists \cup {NoTrack}, QueryRows \cup {NoQuery}, 1) /\ [][NextFilter]_vars

\* The confidences of the judgments of a file: None, or a valid one.
Confidences == {NoConfidence} \cup (MIN_CONFIDENCE..MAX_CONFIDENCE)

\* Files with the judgments of one (query, pair) group: each judgment with its
\* own choice, its sides among flips and its confidence among confidences.
GroupExports(flips, confidences) ==
    UNION {[1..n -> {enriched(1, <<1, 2>>, f, c, k, <<>>) :
                         f \in flips, c \in VALID_CHOICES, k \in confidences}] :
               n \in 1..MaxJudgments}

\* The pairs create_pairs_from_systems makes of the systems listed in
\* ascending order.
AscendingPairs == {pr \in PairIds : pr[1] < pr[2]}

\* A file with one judgment for each of the queries 1..Len(x): x[i] gives the
\* pair, the side assignment and the choice of the judgment of query i.
result_export(x) ==
    [i \in DOMAIN x |-> enriched(i, x[i][1], x[i][2], x[i][3], MAX_CONFIDENCE, <<>>)]

\* A file with one judgment per query for systems 1 and 2 shown in that order:
\* a for the left side, then b for the right side, then t ties.
tally_export(a, b, t) ==
    [i \in 1..(a + b + t) |->
        enriched(i, <<1, 2>>, FALSE,
                 IF i <= a THEN "left" ELSE IF i <= a + b THEN "right" ELSE "tie",
                 MAX_CONFIDENCE, <<>>)]

\* The genres lists of a query: any list of genres, repeats included.
GenreLists == UNION {[1..n -> Genres] : n \in 0..2}

\* A file with one judgment for each of the queries 1..Len(x) of systems 1 and
\* 2: x[i] gives the side assignment, the choice and the genres list of query i.
genre_export(x) ==
    [i \in DOMAIN x |-> enriched(i, <<1, 2>>, x[i][1], x[i][2], MAX_CONFIDENCE, x[i][3])]

\* No store and no request: the analysis script works on a file alone.
InitOffline ==
    /\ raters = {}
    /\ queries = {}
    /\ systems = {}
    /\ policies = [v \in Versions |-> "absent"]
    /\ final_lists = {}
    /\ pairs = {}
    /\ tasks = <<>>
    /\ InitNoRaters
    /\ InitNoFilter
    /\ InitNoPresent

\* An exported file loaded, not analysed yet.
InitAnalysis(exports) ==
    /\ exported \in exports
    /\ query_results = <<>>
    /\ all_stats = NoStats
    /\ InitOffline

\* The same, the file holding one judgment for each of up to MaxGenreQueries
\* queries with genres.
InitGenres ==
    /\ \E n \in 1..MaxGenreQueries :
          \E x \in [1..n -> BOOLEAN \X VALID_CHOICES \X GenreLists] :
             exported = genre_export(x)
    /\ query_results = <<>>
    /\ all_stats = NoStats
    /\ InitOffline

\* One run of analyze_judgments, plain or weighted, over the judgments of one
\* (query, pair) group.
NextVote == \E use_confidence \in BOOLEAN : analyze_judgments(use_confidence, NoOrder)

SpecVote == InitAnalysis(GroupExports({FALSE}, Confidences)) /\ [][NextVote]_vars

\* The same over a group whose judgments were presented with either side
\* assignment.
SpecSides == InitAnalysis(GroupExports(BOOLEAN, {MAX_CONFIDENCE})) /\ [][NextVote]_vars

\* One plain run of analyze_judgments over queries with genres.
NextGenres == analyze_judgments(FALSE, NoOrder)

SpecGenres == InitGenres /\ [][NextGenres]_vars

\* Results at hand, no statistics computed yet: no result, or the results
\* aggregate_majority_vote gives for a file of up to MaxResults judgments of
\* any pair and side assignment, or of up to MaxTally judgments of one pair.
InitStats ==
    /\ exported = <<>>
    /\ \/ query_results = <<>>
       \/ \E n \in 1..MaxResults :
             \E x \in [1..n -> AscendingPairs \X BOOLEAN \X VALID_CHOICES] :
                query_results = majority_results(result_export(x), FALSE)
       \/ \E a \in 0..MaxTally, b \in 0..MaxTally, t \in 0..MaxTally :
             /\ a + b + t \in 1..MaxTally
             /\ query_results = majority_results(tally_export(a, b, t), FALSE)
    /\ all_stats = NoStats
    /\ InitOffline

\* compute_pairwise_stats applied once, with or without a system_order.
NextStats == \E system_order \in SystemOrders : compute_stats(system_order)

SpecStats == InitStats /\ [][NextStats]_vars

\* The final lists a materialization can write: at most final_k tracks, no
\* track twice.
FinalOrders ==
    {o \in UNION {[1..n -> TrackIds] : n \in 0..MaxFinalK} :
        \A i, j \in DOMAIN o : o[i] = o[j] => i = j}

\* The catalogues of a start of the application: every track has metadata, or
\* the tracks of one of these sets have none.
Catalogues ==
    {[t \in TrackIds |-> IF t \in missing THEN NoTrack ELSE <<1>>] : missing \in {{}, {2}}}

\* One query, systems 1 and 2 materialized with their final lists, the pair
\* and its task; no request served yet.
InitPresent ==
    /\ final_order \in [{1, 2} -> FinalOrders]
    /\ tracks \in Catalogues
    /\ shown = <<>>
    /\ InitNoAnalysis
    /\ raters = {1}
    /\ queries = {1}
    /\ systems = {1, 2}
    /\ policies = [v \in Versions |-> IF v = 1 THEN "active" ELSE "absent"]
    /\ final_lists = {<<1, 1, 1>>, <<1, 2, 1>>}
    /\ pairs = {<<1, 2>>}
    /\ tasks = [t \in {<<1, <<1, 2>>>>} |-> new_task(1)]
    /\ InitNoRaters
    /\ InitNoLists

\* Presentations of the task built one after the other.
NextPresent == \E rng_seed \in Seeds : build_task_data(rng_seed)

SpecPresent == InitPresent /\ [][NextPresent]_vars

\* ------------------------------------------------------------------ claims

AllIdle == \A p \in Procs : pc[p] = "idle"

\* The rater's tasks of query q with a completed assignment row, read off the
\* store.
CompletedOn(r, q) ==
    Cardinality({t \in DOMAIN tasks : t[1] = q /\ task_assignments[<<r, t>>].completed > 0})

\* The judgment rows persisted for task t.
JudgmentRows(t) == SumOver(raters, [r \in Raters |-> judgments[<<r, t>>]])

\* The number of unordered pairs of distinct systems, C(S, 2).
SystemPairs == Cardinality({ss \in SUBSET systems : Cardinality(ss) = 2})

\* The least of the rater's completed counts over the queries, read off the store.
LeastCompleted(r) ==
    CHOOSE m \in {CompletedOn(r, q) : q \in queries} :
        \A q \in queries : m <= CompletedOn(r, q)

\* The tracks of the final list whose primary artist is a.
TracksOfArtist(a) ==
    {i \in DOMAIN fl_order : tracks[fl_order[i]] # <<>> /\ tracks[fl_order[i]][1] = a}

\* C1: with the requests of a rater served one after the other, the task
\* get_next_task has selected to offer has no assignment row of that rater,
\* completed or not, and no (rater, task) is handed out twice.
C1_NeverReoffered ==
    /\ \A p \in Procs :
          pc[p] = "gnt_insert" => task_assignments[<<rater[p], task[p]>>].rows = 0
    /\ \A k \in Raters \X TaskKeys : handed[k] <= 1

\* C1 witness: a task is being selected for a rater who holds an assignment
\* that was offered and never completed.
C1_Witness ==
    \E p \in Procs :
        /\ pc[p] = "gnt_insert"
        /\ \E t \in DOMAIN tasks :
              /\ task_assignments[<<rater[p], t>>].rows = 1
              /\ task_assignments[<<rater[p], t>>].completed = 0
              /\ handed[<<rater[p], t>>] = 1

\* C2: when get_next_task returns a task, the rater's completed count on the
\* task's query is the minimum of the rater's completed counts over all queries.
C2_MinSeenQuery ==
    [][\A p \in Procs :
          (pc[p] = "gnt_build" /\ result'[p] = "task")
              => \A q \in queries :
                    CompletedOn(rater[p], task[p][1]) <= CompletedOn(rater[p], q)]_vars

\* C2 witness: a task of a query with no completed assignment is about to be
\* returned to a rater who has completed a task on another query.
C2_Witness ==
    \E p \in Procs :
        /\ pc[p] = "gnt_build"
        /\ CompletedOn(rater[p], task[p][1]) = 0
        /\ \E q \in queries : CompletedOn(rater[p], q) > 0

\* C3: under concurrent get_next_task requests the store never holds two
\* assignment rows for one (rater, task), and a (rater, task) is handed out (a
\* presentation returned) at most once.
C3_OneAssignmentPerRaterTask ==
    \A k \in Raters \X TaskKeys : task_assignments[k].rows <= 1 /\ handed[k] <= 1

\* C3 witness: two requests of the same rater have both selected the same task
\* and are both about to insert its assignment row.
C3_Witness ==
    \E p, q \in Procs :
        /\ p # q
        /\ pc[p] = "gnt_insert" /\ pc[q] = "gnt_insert"
        /\ rater[p] = rater[q] /\ task[p] = task[q]

\* C4: once every submit_judgment call has finished (each rater has submitted
\* at most once for the task, no call has failed), the collected_judgments of
\* each task equals its number of judgment rows.
C4_NoLostIncrement ==
    (/\ AllIdle
     /\ store_errors = MaxStoreErrors
     /\ \A k \in Raters \X TaskKeys : judgments[k] <= 1)
        => \A t \in DOMAIN tasks : tasks[t].collected_judgments = JudgmentRows(t)

\* C5: in every state with no call in progress, also after a call that failed
\* between its writes, a judgment row of (rater, task) exists exactly when the
\* rater's assignment is completed, and every judgment row is counted in the
\* task's collected_judgments.
C5_SubmitAtomic ==
    AllIdle =>
        /\ \A k \in raters \X DOMAIN tasks :
              judgments[k] > 0 <=> task_assignments[k].completed > 0
        /\ \A t \in DOMAIN tasks : tasks[t].collected_judgments = JudgmentRows(t)

\* C6: no step decreases a task's collected_judgments or takes its done flag
\* from true to false.
C6_Monotone ==
    [][\A t \in DOMAIN tasks :
          /\ tasks'[t].collected_judgments >= tasks[t].collected_judgments
          /\ tasks[t].done => tasks'[t].done]_vars

\* C7: when a submit_judgment call served without overlap completes, the task's
\* done flag is true exactly when collected_judgments >= target_judgments.
C7_DoneIffTargetMet ==
    [][\A p \in Procs :
          (pc[p] = "sj_incr_write" /\ result'[p] = "ok")
              => (tasks'[task[p]].done
                    <=> tasks'[task[p]].collected_judgments
                            >= tasks'[task[p]].target_judgments)]_vars

\* C7 witness: a submit_judgment call has completed on a task that collected
\* more judgments than its target.
C7_Witness ==
    \E p \in Procs, t \in DOMAIN tasks :
        /\ result[p] = "ok"
        /\ tasks[t].done
        /\ tasks[t].collected_judgments > tasks[t].target_judgments

\* C8: get_next_task never returns a task whose done flag is true.
C8_NeverReturnsDone ==
    [][\A p \in Procs :
          (pc[p] = "gnt_build" /\ result'[p] = "task") => ~tasks[task[p]].done]_vars

\* C9: a submission whose choice is not left, right or tie, or whose confidence
\* is not in 1..3, is answered with a validation error, the call is over, and
\* no judgment, assignment or task row has changed.
C9_InvalidRejected ==
    [][\A p \in Procs :
          (pc[p] = "idle" /\ calls' # calls)
              => \A r \in Raters, c \in ChoiceInputs, k \in ConfidenceInputs :
                    (sj_start(p, r, c, k)
                        /\ ~(c \in {"left", "right", "tie"} /\ k \in {1, 2, 3}))
                    => /\ result'[p] = "value_error"
                       /\ pc'[p] = "idle"
                       /\ UNCHANGED <<judgments, task_assignments, tasks>>]_vars

\* C9 witness: a submission was rejected by the validation while a task was
\* presented to the rater and judgments of others were already recorded.
C9_Witness ==
    \E p \in Procs, r \in raters :
        /\ result[p] = "value_error"
        /\ session[r] # NoTask
        /\ \E k \in Raters \X TaskKeys : judgments[k] > 0

\* C10: a get_next_task call that reaches the presentation step with no active
\* policy, or with a final list of the selected task's pair missing under the
\* active policy, ends with an error (not with the 'no task available' answer).
C10_StaleMaterializationIsError ==
    [][\A p \in Procs :
          (/\ pc[p] = "gnt_build"
           /\ pc'[p] = "idle"
           /\ \/ active_policies = {}
              \/ \E v \in active_policies : ~final_lists_present(v, task[p]))
              => result'[p] = "error"]_vars

\* C11: once a get_next_task call is over, every assignment row of (rater,
\* task) belongs to a presentation that was handed to the rater: a call that
\* handed none has left no row.
C11_NoPresentationNoAssignment ==
    AllIdle => \A k \in Raters \X TaskKeys : task_assignments[k].rows <= handed[k]

\* C12: once a policy row exists, exactly one policy row is active.
C12_ExactlyOneActive ==
    (\E v \in Versions : policies[v] # "absent") => Cardinality(active_policies) = 1

C14_AtMostFinalK == fl_rows > 0 => Len(fl_order) <= policy.final_k

\* C14 witness: a final list of final_k >= 1 tracks was produced from more
\* than final_k candidates.
C14_Witness ==
    /\ fl_rows > 0
    /\ policy.final_k >= 1
    /\ Len(fl_order) = policy.final_k
    /\ Len(candidates) > policy.final_k

\* C15: the final list holds no track id twice.
C15_NoDuplicateTracks ==
    fl_rows > 0 => \A i, j \in DOMAIN fl_order : fl_order[i] = fl_order[j] => i = j

\* C15 witness: a track that holds two ranks of the candidates is in the final
\* list, which has room left.
C15_Witness ==
    /\ fl_rows > 0
    /\ Len(fl_order) < policy.final_k
    /\ \E i, j \in DOMAIN candidates :
          /\ i < j
          /\ candidates[i] = candidates[j]
          /\ \E n \in DOMAIN fl_order : fl_order[n] = candidates[i]

\* C16: no artist is the primary artist of more than max_per_artist tracks of
\* the final list.
C16_ArtistCap ==
    fl_rows > 0 => \A a \in Artists : Cardinality(TracksOfArtist(a)) <= policy.max_per_artist

\* C16 witness: an artist has max_per_artist tracks in the final list, which has
\* room left, and a further candidate of that artist, not the seed track, is not
\* in it.
C16_Witness ==
    /\ fl_rows > 0
    /\ Len(fl_order) < policy.final_k
    /\ \E a \in Artists :
          /\ Cardinality(TracksOfArtist(a)) = policy.max_per_artist
          /\ \E i \in DOMAIN candidates :
                /\ tracks[candidates[i]] = <<a>>
                /\ candidates[i] # query.seed_track_id
                /\ \A n \in DOMAIN fl_order : fl_order[n] # candidates[i]

\* C17: the query's seed track is not in the final list.
C17_NoSeedTrack ==
    fl_rows > 0 => \A n \in DOMAIN fl_order : fl_order[n] # query.seed_track_id

\* C17 witness: the seed track of a song query is among the candidates, the
\* seed artist is not excluded, and the final list is non-empty with room left.
C17_Witness ==
    /\ fl_rows > 0
    /\ query.task_type = "song"
    /\ ~policy.exclude_seed_artist
    /\ \E i \in DOMAIN candidates : candidates[i] = query.seed_track_id
    /\ fl_order # <<>>
    /\ Len(fl_order) < policy.final_k

\* C18: for a song query under exclude_seed_artist whose seed track has a
\* primary artist in TRACKS, no track of the final list has that primary artist.
C18_NoSeedArtist ==
    (/\ fl_rows > 0
     /\ query.task_type = "song"
     /\ policy.exclude_seed_artist
     /\ tracks[query.seed_track_id] # NoTrack
     /\ tracks[query.seed_track_id] # <<>>)
        => TracksOfArtist(tracks[query.seed_track_id][1]) = {}

C20_MaterializeAborts ==
    [][\A p \in Procs :
          (/\ \E n \in 1..MaxTarget, o \in Orders(systems) : materialize(p, n, o)
           /\ (active_policies = {} \/ Cardinality(systems) < 2))
              => /\ UNCHANGED <<final_lists, pairs, tasks>>
                 /\ result'[p] # "ok"]_vars

\* C21: once create_pairs has run, whatever the orders in which the systems
\* were listed, the pairs table holds C(S, 2) pairs, one per unordered pair of
\* distinct systems: no two systems are paired under two ids.
C21_OnePairPerUnorderedPair ==
    pairs # {} => /\ Cardinality(pairs) = SystemPairs
                  /\ \A pr \in pairs : <<pr[2], pr[1]>> \notin pairs

\* C22: after a run of create_tasks (within materialize) there is exactly one
\* task per (query, pair) of the store, and every task that existed before the
\* run has kept its collected_judgments and its done flag.
C22_RerunKeepsTasks ==
    [][\A p \in Procs :
          (/\ \E n \in 1..MaxTarget, o \in Orders(systems) : materialize(p, n, o)
           /\ Cardinality(systems) >= 2)
              => /\ DOMAIN tasks' = queries \X pairs'
                 /\ \A t \in DOMAIN tasks :
                       /\ t \in DOMAIN tasks'
                       /\ tasks'[t].collected_judgments = tasks[t].collected_judgments
                       /\ tasks'[t].done = tasks[t].done]_vars

\* C22 witness: a task that was judged up to its target and then re-created
\* with a larger target: marked done with fewer judgments than the target.
C22_Witness ==
    \E t \in DOMAIN tasks :
        /\ tasks[t].done
        /\ tasks[t].collected_judgments > 0
        /\ tasks[t].collected_judgments < tasks[t].target_judgments

\* The weight of judgment i of the file in the tally of the analysis that ran:
\* one vote, or its confidence with None counting for nothing.
Weight(i) ==
    IF ~all_stats.use_confidence THEN 1
    ELSE IF exported[i].confidence = NoConfidence THEN 0
    ELSE exported[i].confidence

\* The tally of choice c over the judgments of the file.
Tally(c) ==
    SumOver({i \in DOMAIN exported : exported[i].choice = c},
            [i \in DOMAIN exported |-> Weight(i)])

\* The tally of the votes for system s: 'left' judgments that had s on the
\* left and 'right' judgments that had s on the right.
IdentityTally(s) ==
    SumOver({i \in DOMAIN exported :
                \/ exported[i].choice = "left" /\ exported[i].left_system_id = s
                \/ exported[i].choice = "right" /\ exported[i].right_system_id = s},
            [i \in DOMAIN exported |-> Weight(i)])

\* The row of all results.
Overall == all_stats.rows[<<"overall", "all">>]

\* The system on the winning side of result r, NoSystem for a tie.
WinnerSystem(r) ==
    IF r.winner = "left" THEN r.left_system
    ELSE IF r.winner = "right" THEN r.right_system
    ELSE NoSystem

\* Fractions <<numerator, denominator>> of equal value.
RatEq(x, y) == x[1] * y[2] = y[1] * x[2]

\* C23: the winner of a group is the one choice whose tally (votes, or summed
\* non-null confidences when weighted) is strictly greatest, and 'tie' when two
\* or more choices share the greatest tally.
C23_MajorityVote ==
    all_stats.status # "none" =>
        /\ Len(query_results) = 1
        /\ \A c \in VALID_CHOICES :
              (\A d \in VALID_CHOICES \ {c} : Tally(d) < Tally(c))
                  => query_results[1].winner = c
        /\ (\E c \in VALID_CHOICES, d \in VALID_CHOICES :
                /\ c # d
                /\ Tally(c) = Tally(d)
                /\ \A e \in VALID_CHOICES : Tally(e) <= Tally(c))
              => query_results[1].winner = "tie"

\* C23 witness: a weighted analysis in which the choice with fewer judgments
\* wins on summed confidence, one judgment of the group having no confidence.
C23_Witness ==
    /\ all_stats.status = "ok"
    /\ all_stats.use_confidence
    /\ query_results[1].winner = "left"
    /\ Cardinality({i \in DOMAIN exported : exported[i].choice = "left"})
           < Cardinality({i \in DOMAIN exported : exported[i].choice = "right"})
    /\ \E i \in DOMAIN exported : exported[i].confidence = NoConfidence

\* C24: compute_stats applied to results that name a number of distinct
\* systems other than two raises an error and gives no row.
C24_WrongSystemCountRaises ==
    (/\ all_stats.status # "none"
     /\ query_results # <<>>
     /\ Cardinality({query_results[i].left_system : i \in DOMAIN query_results}
                        \cup {query_results[i].right_system : i \in DOMAIN query_results}) # 2)
        => all_stats = [status |-> "ValueError", use_confidence |-> FALSE, rows |-> <<>>]

\* C24 witness: compute_stats has raised on results naming three systems.
C24_Witness ==
    /\ all_stats.status = "ValueError"
    /\ Cardinality({query_results[i].left_system : i \in DOMAIN query_results}
                       \cup {query_results[i].right_system : i \in DOMAIN query_results}) = 3

\* C25: wins_a is the number of results whose winning side held system_a,
\* wins_b likewise for system_b, ties the number of tie results, and the three
\* add up to the number of results.
C25_WinsBySystem ==
    (all_stats.status = "ok" /\ query_results # <<>>) =>
        /\ Overall.wins_a = Cardinality({i \in DOMAIN query_results :
                                WinnerSystem(query_results[i]) = Overall.system_a})
        /\ Overall.wins_b = Cardinality({i \in DOMAIN query_results :
                                WinnerSystem(query_results[i]) = Overall.system_b})
        /\ Overall.ties = Cardinality({i \in DOMAIN query_results :
                                query_results[i].winner = "tie"})
        /\ Overall.wins_a + Overall.wins_b + Overall.ties = Len(query_results)

\* C25 witness: system_a won one result from the left side and another from
\* the right side.
C25_Witness ==
    /\ all_stats.status = "ok"
    /\ \E i \in DOMAIN query_results, j \in DOMAIN query_results :
          /\ query_results[i].winner = "left"
          /\ query_results[i].left_system = Overall.system_a
          /\ query_results[j].winner = "right"
          /\ query_results[j].right_system = Overall.system_a
    /\ Overall.wins_a = 2

\* C26: in the analysis of a file, every result is counted once in the overall
\* row, and the row of a genre counts once each result whose query lists that
\* genre, and no other result.
C26_OncePerGenre ==
    all_stats.status = "ok" =>
        /\ Overall.n_queries = Len(query_results)
        /\ \A g \in Genres :
              LET tagged == {i \in DOMAIN query_results :
                                \E j \in DOMAIN exported :
                                    /\ exported[j].query_id = query_results[i].query_id
                                    /\ \E n \in DOMAIN exported[j].genres :
                                          exported[j].genres[n] = g}
              IN  IF tagged = {}
                  THEN <<"genre", g>> \notin DOMAIN all_stats.rows
                  ELSE /\ <<"genre", g>> \in DOMAIN all_stats.rows
                       /\ all_stats.rows[<<"genre", g>>].n_queries = Cardinality(tagged)

\* C27 as stated: win_rate is wins_a / (wins_a + wins_b), and 1/2 when no result
\* is decisive; for 7 wins against 3 it is 7/10 and the p-value is 352/1024,
\* above 0.05.
C27_WinRate ==
    all_stats.status = "ok" =>
        /\ Overall.wins_a + Overall.wins_b > 0
              => RatEq(Overall.win_rate, <<Overall.wins_a, Overall.wins_a + Overall.wins_b>>)
        /\ Overall.wins_a + Overall.wins_b = 0 => RatEq(Overall.win_rate, <<1, 2>>)
        /\ (Overall.wins_a = 7 /\ Overall.wins_b = 3)
              => /\ RatEq(Overall.win_rate, <<7, 10>>)
                 /\ RatEq(Overall.p_value, <<352, 1024>>)
                 /\ 100 * Overall.p_value[1] > 5 * Overall.p_value[2]

\* C27 amended: the same, the win_rate of 1/2 being that of results none of
\* which is decisive; with no result at all the row is the zero row, win_rate 0.
C27_WinRateOfResults ==
    all_stats.status = "ok" =>
        /\ Overall.wins_a + Overall.wins_b > 0
              => RatEq(Overall.win_rate, <<Overall.wins_a, Overall.wins_a + Overall.wins_b>>)
        /\ (Overall.wins_a + Overall.wins_b = 0 /\ query_results # <<>>)
              => RatEq(Overall.win_rate, <<1, 2>>)
        /\ query_results = <<>> => RatEq(Overall.win_rate, <<0, 1>>)
        /\ (Overall.wins_a = 7 /\ Overall.wins_b = 3)
              => /\ RatEq(Overall.win_rate, <<7, 10>>)
                 /\ RatEq(Overall.p_value, <<352, 1024>>)
                 /\ 100 * Overall.p_value[1] > 5 * Overall.p_value[2]

\* C27 witness: statistics of ten decisive results, 7 for system_a and 3 for
\* system_b.
C27_Witness ==
    /\ all_stats.status = "ok"
    /\ Overall.wins_a = 7
    /\ Overall.wins_b = 3

C29_CreditedByIdentity ==
    all_stats.status = "ok" =>
        \A s \in {1, 2} :
            (IdentityTally(s) > IdentityTally(3 - s) /\ IdentityTally(s) > Tally("tie"))
                => \/ Overall.system_a = s /\ Overall.wins_a = 1
                   \/ Overall.system_b = s /\ Overall.wins_b = 1

\* The tasks the fill pass is to choose from for rater r: tasks of the queries
\* r has completed least often, not done, with no assignment row of r.
EligibleTasks(r) ==
    {t \in DOMAIN tasks : /\ CompletedOn(r, t[1]) = LeastCompleted(r)
                          /\ ~tasks[t].done
                          /\ task_assignments[<<r, t>>].rows = 0}

\* C30: the task get_next_task selects is an eligible task and no eligible task
\* has a smaller fill ratio collected_judgments / target_judgments.
C30_MinFillAmongEligible ==
    [][\A p \in Procs :
          (pc[p] = "gnt_select" /\ pc'[p] = "gnt_insert")
              => /\ task'[p] \in EligibleTasks(rater[p])
                 /\ \A u \in EligibleTasks(rater[p]) : ~fill_ratio_less(u, task'[p])]_vars

\* The primary artist of a track of the catalogue, NoArtist if it has none.
PrimaryArtist(t) ==
    IF t \notin TrackIds THEN NoArtist
    ELSE IF tracks[t] = NoTrack THEN NoArtist
    ELSE IF tracks[t] = <<>> THEN NoArtist
    ELSE tracks[t][1]

\* The seed artist the filter takes: the primary artist of the seed track of a
\* song query under exclude_seed_artist, when the seed track is one of the
\* candidates' tracks.
SeedArtistTaken ==
    IF /\ query.task_type = "song"
       /\ policy.exclude_seed_artist
       /\ \E j \in 1..Len(candidates) : candidates[j] = query.seed_track_id
    THEN PrimaryArtist(query.seed_track_id)
    ELSE NoArtist

\* The i-th candidate examined by the last run came as far as the seed-artist rule.
ReachedSeedArtistRule(i) ==
    /\ fl_examined[i] # "not_found"
    /\ fl_examined[i] # "seed_track_excluded"

\* The track names the artist, as primary or as secondary artist.
Names(t, a) == \E k \in 1..Len(tracks[t]) : tracks[t][k] = a

\* C32 (as claimed): for a song query under exclude_seed_artist, a candidate that
\* comes to the seed-artist rule is dropped by it exactly when its primary artist
\* is the primary artist of the seed track; a candidate naming that artist only
\* as a secondary artist is not dropped by the rule.
C32_PrimaryArtistOnly ==
    (fl_rows > 0 /\ query.task_type = "song" /\ policy.exclude_seed_artist) =>
        \A i \in 1..Len(fl_examined) :
            ReachedSeedArtistRule(i) =>
                (fl_examined[i] = "seed_artist_excluded"
                    <=> PrimaryArtist(candidates[i]) = PrimaryArtist(query.seed_track_id))

\* C32 (amended): a candidate that comes to the seed-artist rule is dropped by it
\* exactly when the seed artist the filter took is named anywhere in the
\* candidate's artist list, as primary or as secondary artist.
C32_AnyArtist ==
    fl_rows > 0 =>
        \A i \in 1..Len(fl_examined) :
            ReachedSeedArtistRule(i) =>
                (fl_examined[i] = "seed_artist_excluded"
                    <=> (SeedArtistTaken # NoArtist /\ Names(candidates[i], SeedArtistTaken)))

\* C32 witness: a candidate naming the seed artist only as a secondary artist was
\* dropped by the seed-artist rule.
C32_Witness ==
    /\ fl_rows > 0
    /\ \E i \in 1..Len(fl_examined) :
          /\ fl_examined[i] = "seed_artist_excluded"
          /\ PrimaryArtist(candidates[i]) # SeedArtistTaken
          /\ Names(candidates[i], SeedArtistTaken)

\* C33: depth_scanned of the row is the number of candidates the filter examined
\* (accepted, rejected by a filter, or skipped for missing metadata); a candidate
\* reached only when the output already held final_k tracks is not counted.
C33_DepthIsExamined == fl_rows > 0 => fl_depth = Len(fl_examined)

\* The candidate at rank i passes the filter chain against the candidates
\* accepted at the ranks of prior.
Passes(i, prior) ==
    /\ tracks[candidates[i]] # NoTrack
    /\ candidates[i] # query.seed_track_id
    /\ ~(SeedArtistTaken # NoArtist /\ Names(candidates[i], SeedArtistTaken))
    /\ \A j \in prior : candidates[j] # candidates[i]
    /\ \/ PrimaryArtist(candidates[i]) = NoArtist
       \/ Cardinality({j \in prior : PrimaryArtist(candidates[j]) = PrimaryArtist(candidates[i])})
              < policy.max_per_artist

\* The list is the candidates at the ranks of P, in ascending rank order.
ListOfRanks(list, P) ==
    /\ Len(list) = Cardinality(P)
    /\ \A i \in P : list[Cardinality({j \in P : j <= i})] = candidates[i]

\* C34: the final list is the sequence, in ascending rank order, of the first
\* final_k candidates that pass the filter chain evaluated against the tracks
\* accepted so far: no passing candidate ranked before the list is full is left out.
C34_FirstKPassing ==
    fl_rows > 0 =>
        \E P \in SUBSET (1..Len(candidates)) :
            /\ ListOfRanks(fl_order, P)
            /\ Cardinality(P) <= policy.final_k
            /\ \A i \in 1..Len(candidates) :
                  IF i \in P
                  THEN Passes(i, {j \in P : j < i})
                  ELSE Cardinality({j \in P : j < i}) < policy.final_k
                          => ~Passes(i, {j \in P : j < i})

\* C34 witness: the first and the third candidate were accepted, the second was not.
C34_Witness ==
    /\ fl_rows > 0
    /\ Len(candidates) = MaxCandidates
    /\ Len(fl_examined) = MaxCandidates
    /\ fl_examined[1] = "accepted"
    /\ fl_examined[2] # "accepted"
    /\ fl_examined[MaxCandidates] = "accepted"
    /\ Len(fl_order) = 2

\* C39: the candidate filter raises only when the query has no row; for a query
\* with no candidates the row written has an empty final list, the no_candidates
\* marker in filter_counts and depth_scanned 0; a candidate whose track has no
\* metadata is skipped, is in no final list and does not fail the call.
C39_OnlyMissingQueryRaises ==
    fl_runs = 0 =>
        /\ fl_raised <=> query = NoQuery
        /\ (query # NoQuery /\ candidates = <<>>) =>
               /\ fl_rows = 1
               /\ fl_order = <<>>
               /\ "no_candidates" \in DOMAIN fl_counts
               /\ fl_depth = 0
        /\ \A i \in 1..Len(fl_examined) :
               tracks[candidates[i]] = NoTrack => fl_examined[i] = "not_found"
        /\ \A k \in 1..Len(fl_order) : tracks[fl_order[k]] # NoTrack

\* C39 witness: a run that skipped a candidate without metadata, accepted
\* another one and raised nothing.
C39_Witness ==
    /\ fl_runs = 0
    /\ ~fl_raised
    /\ fl_order # <<>>
    /\ \E i \in 1..Len(fl_examined) : fl_examined[i] = "not_found"

\* A query without candidates was processed; a missing query was asked for.
C39_NoCandidatesReached == fl_runs = 0 /\ query # NoQuery /\ candidates = <<>> /\ fl_rows = 1
C39_MissingQueryReached == fl_runs = 0 /\ query = NoQuery /\ fl_raised

\* C40: after materialize_all_final_lists under an active policy, every (query,
\* system) combination was attempted: each has its final list or its one entry
\* in the returned errors, an error did not stop the later combinations, and the
\* returned count plus the number of errors is |queries| * |systems|.
C40_EveryCombinationAttempted ==
    (fl_runs < MaxBatchRuns /\ active_policies # {}) =>
        /\ count_materialized + Len(errors) = Cardinality(queries) * Cardinality(systems)
        /\ \A q \in queries, s \in systems :
              \/ \E v \in active_policies : <<v, s, q>> \in final_lists
              \/ \E i \in 1..Len(errors) : errors[i] = <<"Error materializing", s, q>>
        /\ \A i, j \in 1..Len(errors) : errors[i] = errors[j] => i = j

\* C40 witness: a first run in which two combinations failed and others were
\* materialized.
C40_Witness ==
    /\ fl_runs = MaxBatchRuns - 1
    /\ active_policies # {}
    /\ Len(errors) = 2
    /\ count_materialized > 0

\* C31: at most one judgment row exists per (rater, task), a judgment row is of
\* a task assigned to its rater, and a task's collected_judgments counts each
\* rater at most once: a second submission of a rater for a task adds no
\* judgment and does not advance the counter.
C31_OneJudgmentPerRaterTask ==
    \A t \in DOMAIN tasks :
        /\ \A r \in raters :
              /\ judgments[<<r, t>>] <= 1
              /\ judgments[<<r, t>>] > 0 => task_assignments[<<r, t>>].rows > 0
        /\ tasks[t].collected_judgments <= Cardinality({r \in raters : judgments[<<r, t>>] > 0})

\* The tasks offered to rater r (an assignment row exists) and not completed.
Outstanding(r) ==
    {t \in DOMAIN tasks :
        task_assignments[<<r, t>>].rows > task_assignments[<<r, t>>].completed}

\* So far rater r has submitted a judgment for each task offered before asking
\* for the next one: while a get_next_task request of r is served the only
\* offer not completed is the one being made, else it is the one in hand.
Diligent(r) ==
    IF \E p \in Procs : rater[p] = r /\ pc[p] \in {"gnt_select", "gnt_insert", "gnt_build"}
    THEN \A p \in Procs : rater[p] = r => Outstanding(r) \subseteq {task[p]}
    ELSE Outstanding(r) \subseteq {session[r]}

C37_BalancedCoverage ==
    \A r \in raters :
        Diligent(r) =>
            \A q1, q2 \in queries : CompletedOn(r, q1) <= CompletedOn(r, q2) + 1

\* C37 witness: such a rater has completed two tasks of one query and one of
\* the other and is being offered a task.
C37_Witness ==
    \E r \in raters :
        /\ Diligent(r)
        /\ pc[1] = "gnt_build"
        /\ \E q1, q2 \in queries : CompletedOn(r, q1) = 2 /\ CompletedOn(r, q2) = 1

\* The occurrences of track t in a list.
Occurrences(list, t) == Cardinality({k \in DOMAIN list : list[k] = t})

\* The shown list is a permutation of the tracks of the stored list that the
\* catalogue has metadata for.
ShowsResolvable(list, stored) ==
    \A t \in TrackIds :
        Occurrences(list, t) = IF tracks[t] = NoTrack THEN 0 ELSE Occurrences(stored, t)

\* C38: in every presentation the left and right system ids are the two systems
\* of the task's pair, the left list is a permutation of the resolvable tracks
\* of the final list of the system given as left_system_id, and the right list
\* likewise for right_system_id.
C38_ListsFollowSystems ==
    \A i \in DOMAIN shown :
        /\ {shown[i].left_system_id, shown[i].right_system_id}
               = {shown[i].pair_id[1], shown[i].pair_id[2]}
        /\ shown[i].left_system_id # shown[i].right_system_id
        /\ ShowsResolvable(shown[i].left_list, final_order[shown[i].left_system_id])
        /\ ShowsResolvable(shown[i].right_list, final_order[shown[i].right_system_id])

\* C38 witness: a presentation with the sides flipped, the two final lists
\* holding different tracks, and a track without metadata left out of the left list.
C38_Witness ==
    \E i \in DOMAIN shown :
        /\ shown[i].left_system_id = shown[i].pair_id[2]
        /\ \E t \in TrackIds : Occurrences(final_order[1], t) # Occurrences(final_order[2], t)
        /\ shown[i].left_list # <<>>
        /\ Len(shown[i].left_list) < Len(final_order[shown[i].left_system_id])

====
